---- MODULE Spec2Model ----
(***************************************************************************)
(* Model of the themekit synchronization client (src/theme_client.go) and  *)
(* of its caller doBootstrap (src/unnamed/part_000).                       *)
(*                                                                         *)
(* Independent parts of the client are modelled, each with its own         *)
(* specification over the same variables:                                  *)
(*   SpecDedup      sort.Sort + ignoreCompiledAssets of AssetList          *)
(*   SpecProcess    ThemeClient.Process / Perform / request                *)
(*   SpecCreate     ThemeClient.CreateTheme / sendData / isDoneProcessing  *)
(*   SpecAsset      ThemeClient.Asset / query                              *)
(*   SpecAssetList  the AssetList goroutine and AssetListSync              *)
(*   SpecBucket     ThemeClient.LeakyBucket                                *)
(* SpecProcessFair, SpecCreateFair and SpecCreateFairLog add the           *)
(* scheduling of the goroutines for the liveness properties.               *)
(* Asset keys are Go strings, modelled as sequences of byte values.        *)
(***************************************************************************)
EXTENDS Integers, Sequences, FiniteSets, TLC

VARIABLES
    \* ---- AssetList: sort + ignoreCompiledAssets
    listing,      \* assets["assets"] as decoded from the listing response
    sorted,       \* the slice after sort.Sort(ByAsset(...))
    sanitized,    \* sanitizedAssets
    dpc,          \* position in AssetList: "decoded", "sorted", "done"
    \* ---- the client's configuration
    urlOk,        \* the configured admin URL parses: http.NewRequest succeeds
    filter,       \* the asset keys t.filter.MatchesFilter answers true for
    \* ---- Process / Perform
    received,     \* the events the Process goroutine has taken from events
    eventsClosed, \* the producer has closed the events channel
    ppc,          \* the Process goroutine: "idle", "recv", "perform", "send",
                  \*   "done" (blocked in done <- true), "exit"
    pending,      \* the result Perform returned, not yet taken from messages
    delivered,    \* the results the consumer has taken from messages
    calls,        \* the calls t.client.Do has made, with the answers
    messagesClosed,
    doneDelivered,\* the consumer has taken the value sent on done
    consumer,     \* "concurrent": done and messages are read independently;
                  \* "sequential": done is read once messages is seen closed
    \* ---- CreateTheme
    cpc,          \* "idle", "create" (the retry loop), "poll", "sleep", "ready"
                  \*   (wg.Done() called), "returned", "panic"
    retries,
    ready,
    themeEvent,   \* the result of the last sendData("POST", ...)
    attempts,     \* the result of every create attempt, in order
    notified,     \* NotifyError calls, each with the number of attempts before it
    polls,        \* status queries made
    lastPreviewable, \* what the last isDoneProcessing returned
    polledIds,    \* the theme identifiers the status queries asked for
    logBlocked,   \* the attempts whose logEvent goroutine is blocked in log <- t
    logReceived,  \* the attempts whose event the consumer has taken from log
    newThemeId,   \* config.ThemeId of the client CreateTheme returns
    falseFirst,   \* the server: status queries answered previewable = false
                  \*   before the first true; Never for a server that never does
    serverThemeId,\* the server: the identifier of the theme it created, or 0
    \* ---- Asset (single-asset fetch)
    apc,          \* "idle", "query", "classify", "returned"
    filename,     \* the key asked for
    aresp,        \* the apiResponse query returned
    aresult,      \* what Asset returned: the asset and the error
    \* ---- AssetList / AssetListSync
    lpc,          \* the AssetList goroutine: "idle", "query", "sendErr"
                  \*   (blocked in errs <- resp.err), "decode", "sendDecodeErr"
                  \*   (blocked in errs <- err), "sendResults", "exit"
    lresp,        \* the apiResponse query returned
    lqueue,       \* the sanitized assets not yet sent on results
    errsReceived, \* the errors the consumer has taken from errs
    assetsReceived, \* the assets the consumer has taken from results
    resultsClosed,
    errsClosed,
    lconsumer,    \* "both": a caller of AssetList reading results and errs;
                  \* "sync": AssetListSync, which reads results only
    syncReturned, \* AssetListSync has returned
    \* ---- LeakyBucket
    bucketSize,   \* t.config.BucketSize
    buckets,      \* the limiter instances constructed so far: their tokens
    handle,       \* per task: the instance its last t.LeakyBucket() returned
    acquired,     \* acquire() calls that have returned
    refills       \* refill intervals elapsed

dedupVars == <<listing, sorted, sanitized, dpc>>

configVars == <<urlOk, filter>>

procVars == <<received, eventsClosed, ppc, pending, delivered, calls,
              messagesClosed, doneDelivered, consumer>>

createVars == <<cpc, retries, ready, themeEvent, attempts, notified, polls,
                lastPreviewable, polledIds, logBlocked, logReceived, newThemeId,
                falseFirst, serverThemeId>>

fetchVars == <<apc, filename, aresp, aresult>>

listVars == <<lpc, lresp, lqueue, errsReceived, assetsReceived, resultsClosed,
              errsClosed, lconsumer, syncReturned>>

bucketVars == <<bucketSize, buckets, handle, acquired, refills>>

vars == <<dedupVars, configVars, procVars, createVars, fetchVars, listVars,
          bucketVars>>

(***************************************************************************)
(* The parts a specification does not exercise stay as constructed.        *)
(***************************************************************************)
DedupIdle ==
    /\ listing = <<>>
    /\ sorted = <<>>
    /\ sanitized = <<>>
    /\ dpc = "idle"

ProcIdle ==
    /\ filter = {}
    /\ received = <<>>
    /\ eventsClosed = FALSE
    /\ ppc = "idle"
    /\ pending = <<>>
    /\ delivered = <<>>
    /\ calls = <<>>
    /\ messagesClosed = FALSE
    /\ doneDelivered = FALSE
    /\ consumer = "concurrent"

\* The APIThemeEvent zero value of the named result of the closure at line 189.
ZeroThemeEvent == [code |-> 0, ThemeId |-> 0, Previewable |-> FALSE, err |-> FALSE]

CreateIdle ==
    /\ cpc = "idle"
    /\ retries = 0
    /\ ready = FALSE
    /\ themeEvent = ZeroThemeEvent
    /\ attempts = <<>>
    /\ notified = <<>>
    /\ polls = 0
    /\ lastPreviewable = FALSE
    /\ polledIds = {}
    /\ logBlocked = {}
    /\ logReceived = <<>>
    /\ newThemeId = 0
    /\ falseFirst = 0
    /\ serverThemeId = 0

\* The apiResponse zero value.
ZeroResponse == [code |-> 0, body |-> [kind |-> "nil", assets |-> <<>>], err |-> "none"]

NoResult == [asset |-> <<>>, error |-> [kind |-> "nil", Code |-> 0, Verb |-> ""]]

FetchIdle ==
    /\ apc = "idle"
    /\ filename = <<>>
    /\ aresp = ZeroResponse
    /\ aresult = NoResult

ListIdle ==
    /\ lpc = "idle"
    /\ lresp = ZeroResponse
    /\ lqueue = <<>>
    /\ errsReceived = <<>>
    /\ assetsReceived = <<>>
    /\ resultsClosed = FALSE
    /\ errsClosed = FALSE
    /\ lconsumer = "both"
    /\ syncReturned = FALSE

BucketIdle ==
    /\ bucketSize = 0
    /\ buckets = <<>>
    /\ handle = <<>>
    /\ acquired = 0
    /\ refills = 0

(***************************************************************************)
(* Bounds of the model.                                                    *)
(***************************************************************************)
MaxKeyLen == 2
MaxAssets == 3
MaxEvents == 2
MaxFalse == 2

(***************************************************************************)
(* Strings.                                                                *)
(***************************************************************************)
\* The bytes the bounded keys are built from: 'a' and 'b'.
Alphabet == {97, 98}

RECURSIVE StringsUpTo(_)
StringsUpTo(n) ==
    IF n = 0 THEN {<<>>}
    ELSE LET shorter == StringsUpTo(n - 1)
         IN  shorter \cup {Append(s, c) : s \in shorter, c \in Alphabet}

Keys == StringsUpTo(MaxKeyLen)

\* strings.Contains(s, substr): substr occurs in s at some offset; the empty
\* string occurs in every string.
Contains(s, substr) ==
    \E i \in 0..(Len(s) - Len(substr)) : SubSeq(s, i + 1, i + Len(substr)) = substr

\* Go's < on strings: bytewise lexicographic order.
RECURSIVE KeyLess(_, _)
KeyLess(a, b) ==
    IF b = <<>> THEN FALSE
    ELSE IF a = <<>> THEN TRUE
    ELSE IF Head(a) # Head(b) THEN Head(a) < Head(b)
    ELSE KeyLess(Tail(a), Tail(b))

\* An Asset, reduced to the field the listing pipeline reads.
NewAsset(key) == [Key |-> key]

(***************************************************************************)
(* AssetList, lines 110-111: the decoded listing is sorted by key and the  *)
(* compiled assets are removed.                                            *)
(***************************************************************************)
\* ByAsset.Less: assets are ordered by key.
Less(a, b) == KeyLess(a.Key, b.Key)

RECURSIVE Insert(_, _)
Insert(a, s) ==
    IF s = <<>> THEN <<a>>
    ELSE IF Less(a, Head(s)) THEN <<a>> \o s
    ELSE <<Head(s)>> \o Insert(a, Tail(s))

\* sort.Sort(ByAsset(assets)): the assets in ascending key order.
RECURSIVE SortByAsset(_)
SortByAsset(assets) ==
    IF assets = <<>> THEN <<>>
    ELSE Insert(Head(assets), SortByAsset(Tail(assets)))

\* A plausible slip: the arguments of strings.Contains exchanged.
isCompiledSwapped(a, rest) ==
    \E j \in 1..Len(rest) : Contains(a.Key, rest[j].Key)

\* A plausible slip: strings.HasPrefix in place of strings.Contains.
isCompiledPrefix(a, rest) ==
    \E j \in 1..Len(rest) :
        /\ Len(a.Key) <= Len(rest[j].Key)
        /\ SubSeq(rest[j].Key, 1, Len(a.Key)) = a.Key


\* A plausible slip: an equal key does not count as containing the key.
isCompiledStrict(a, rest) ==
    \E j \in 1..Len(rest) : rest[j].Key # a.Key /\ Contains(rest[j].Key, a.Key)

\* The closure isCompiled of ignoreCompiledAssets.
isCompiled(a, rest) ==
    \E j \in 1..Len(rest) : Contains(rest[j].Key, a.Key)

RECURSIVE ignoreFrom(_, _)
ignoreFrom(assets, index) ==
    IF index > Len(assets) THEN <<>>
    ELSE (IF ~isCompiled(assets[index], SubSeq(assets, index + 1, Len(assets)))
          THEN <<assets[index]>>
          ELSE <<>>) \o ignoreFrom(assets, index + 1)

ignoreCompiledAssets(assets) == ignoreFrom(assets, 1)

\* The two listings of the specification's concrete scenario.
KeyACss == <<97, 46, 99, 115, 115>>                        \* "a.css"
KeyAScss == <<97, 46, 115, 99, 115, 115>>                  \* "a.scss"
KeyAssetsACssLiquid ==                                     \* "assets/a.css.liquid"
    <<97, 115, 115, 101, 116, 115, 47, 97, 46, 99, 115, 115,
      46, 108, 105, 113, 117, 105, 100>>
KeyApp == <<97, 112, 112>>                                 \* "app"
KeyAppMin == <<97, 112, 112, 46, 109, 105, 110>>           \* "app.min"

ListingCss == <<NewAsset(KeyACss), NewAsset(KeyAScss), NewAsset(KeyAssetsACssLiquid)>>
ListingApp == <<NewAsset(KeyApp), NewAsset(KeyAppMin)>>

RECURSIVE SeqsUpTo(_, _)
SeqsUpTo(S, n) ==
    IF n = 0 THEN {<<>>}
    ELSE LET shorter == SeqsUpTo(S, n - 1)
         IN  shorter \cup {Append(s, x) : s \in shorter, x \in S}

\* The listings a server can answer with: any order, repeated keys included.
Listings ==
    SeqsUpTo({NewAsset(k) : k \in Keys}, MaxAssets)
        \cup {ListingCss, ListingApp, <<ListingApp[2], ListingApp[1]>>}

InitDedup ==
    /\ listing \in Listings
    /\ sorted = <<>>
    /\ sanitized = <<>>
    /\ dpc = "decoded"
    /\ urlOk = TRUE
    /\ ProcIdle
    /\ CreateIdle
    /\ FetchIdle
    /\ ListIdle
    /\ BucketIdle

\* line 110
SortListing ==
    /\ dpc = "decoded"
    /\ sorted' = SortByAsset(listing)
    /\ dpc' = "sorted"
    /\ UNCHANGED <<listing, sanitized, configVars, procVars, createVars,
                   fetchVars, listVars, bucketVars>>

\* line 111
IgnoreCompiled ==
    /\ dpc = "sorted"
    /\ sanitized' = ignoreCompiledAssets(sorted)
    /\ dpc' = "done"
    /\ UNCHANGED <<listing, sorted, configVars, procVars, createVars,
                   fetchVars, listVars, bucketVars>>

NextDedup == SortListing \/ IgnoreCompiled

SpecDedup == InitDedup /\ [][NextDedup]_vars

KeysOf(assets) == {assets[i].Key : i \in 1..Len(assets)}

(***************************************************************************)
(* Claims about the deduplication.                                         *)
(***************************************************************************)
\* The pairs of distinct keys A, B of the listing with A a substring of B.
SubstringPairs ==
    {<<A, B>> \in KeysOf(listing) \X KeysOf(listing) : A # B /\ Contains(B, A)}

C10_ScenarioAsStated ==
    dpc = "done" =>
        /\ (listing = ListingCss => sanitized = ListingCss)
        /\ (listing = ListingApp => sanitized = <<NewAsset(KeyAppMin)>>)

\* C10 as amended: the listing [a.css, a.scss, assets/a.css.liquid] keeps
\* a.scss and assets/a.css.liquid and drops a.css, which is a substring of
\* assets/a.css.liquid; the listing [app, app.min], in either order, keeps
\* only app.min.
C10_Scenario ==
    dpc = "done" =>
        /\ (listing = ListingCss =>
               sanitized = <<NewAsset(KeyAScss), NewAsset(KeyAssetsACssLiquid)>>)
        /\ (KeysOf(listing) = {KeyApp, KeyAppMin} /\ Len(listing) = 2 =>
               sanitized = <<NewAsset(KeyAppMin)>>)

\* C10 witness: the deduplication of the three-asset listing has run.
C10_Witness ==
    /\ dpc = "done"
    /\ listing = ListingCss
    /\ Len(sanitized) = 2

(***************************************************************************)
(* The event pipeline: Process, Perform, request, processResponse.         *)
(***************************************************************************)
Update == 0
Remove == 1
EventTypes == {Update, Remove}

\* The asset keys of the events: "a" and "b".
EventKeys == {<<97>>, <<98>>}

\* An AssetEvent: Asset() and Type().
AssetEvents == [asset : {NewAsset(k) : k \in EventKeys}, type : EventTypes]

\* What t.client.Do can return: a response with a status code, or an error
\* (connection failure, malformed response) and no response.
Codes == {200, 404, 500}
NoCode == 0 - 1
Outcomes == [err : {FALSE}, code : Codes] \cup {[err |-> TRUE, code |-> NoCode]}

\* EventFilter.MatchesFilter: a pure predicate over the path.
MatchesFilter(key) == key \in filter

NoOpEvent == [kind |-> "noop", key |-> <<>>, etype |-> NoCode, code |-> NoCode,
              err |-> FALSE]

\* NewAPIAssetEvent(r, event, err): the result event of an asset mutation,
\* carrying the response code and the originating asset, or the error.
NewAPIAssetEvent(r, event, err) ==
    [kind |-> "asset", key |-> event.asset.Key, etype |-> event.type,
     code |-> IF err THEN NoCode ELSE r, err |-> err]

\* ThemeEvent.Successful(): a No-op result is always successful, an asset
\* result when the response code is 2xx.
Successful(e) ==
    \/ e.kind = "noop"
    \/ ~e.err /\ e.code >= 200 /\ e.code < 300

\* lines 304-306
processResponse(r, err, event) == NewAPIAssetEvent(r, event, err)

\* request, lines 289-302: no call is made when http.NewRequest fails;
\* otherwise t.client.Do makes one call with the method, which the server
\* (or the transport) answers with outcome.
request(event, method, outcome) ==
    IF ~urlOk
    THEN [resp |-> NoCode, err |-> TRUE, calls |-> <<>>]
    ELSE [resp |-> outcome.code, err |-> outcome.err,
          calls |-> <<[method |-> method, key |-> event.asset.Key,
                       outcome |-> outcome]>>]

\* The switch of Perform, lines 242-248.
MethodOf(type) ==
    CASE type = Update -> "PUT"
      [] type = Remove -> "DELETE"
      [] OTHER -> ""

\* A plausible slip: a transport failure is swallowed and reported as a No-op.
PerformSwallowsError(asset, outcome) ==
    IF MatchesFilter(asset.asset.Key)
    THEN [event |-> NoOpEvent, calls |-> <<>>]
    ELSE LET r == request(asset, MethodOf(asset.type), outcome)
         IN  [event |-> IF r.err THEN NoOpEvent
                        ELSE processResponse(r.resp, r.err, asset),
              calls |-> r.calls]

\* A plausible slip: the filter is consulted after the request was sent.
PerformFiltersLate(asset, outcome) ==
    LET r == request(asset, MethodOf(asset.type), outcome)
    IN  IF MatchesFilter(asset.asset.Key)
        THEN [event |-> NoOpEvent, calls |-> r.calls]
        ELSE [event |-> processResponse(r.resp, r.err, asset), calls |-> r.calls]

\* Perform, lines 238-254: the result event and the calls made for it.
Perform(asset, outcome) ==
    IF MatchesFilter(asset.asset.Key)
    THEN [event |-> NoOpEvent, calls |-> <<>>]
    ELSE LET r == request(asset, MethodOf(asset.type), outcome)
         IN  [event |-> processResponse(r.resp, r.err, asset), calls |-> r.calls]

Last(s) == s[Len(s)]

InitProcess ==
    /\ DedupIdle
    /\ CreateIdle
    /\ FetchIdle
    /\ ListIdle
    /\ BucketIdle
    /\ urlOk \in BOOLEAN
    /\ filter \in SUBSET EventKeys
    /\ received = <<>>
    /\ eventsClosed = FALSE
    /\ ppc = "recv"
    /\ pending = <<>>
    /\ delivered = <<>>
    /\ calls = <<>>
    /\ messagesClosed = FALSE
    /\ doneDelivered = FALSE
    /\ consumer \in {"concurrent", "sequential"}

\* The producer sends an event and the goroutine takes it: line 225, more = true.
ReceiveEvent ==
    /\ ppc = "recv"
    /\ ~eventsClosed
    /\ Len(received) < MaxEvents
    /\ \E job \in AssetEvents : received' = Append(received, job)
    /\ ppc' = "perform"
    /\ UNCHANGED <<eventsClosed, pending, delivered, calls, messagesClosed,
                   doneDelivered, consumer, configVars, dedupVars, createVars,
                   fetchVars, listVars, bucketVars>>

\* The producer closes the events channel.
CloseEvents ==
    /\ ppc # "idle"
    /\ ~eventsClosed
    /\ eventsClosed' = TRUE
    /\ UNCHANGED <<received, ppc, pending, delivered, calls, messagesClosed,
                   doneDelivered, consumer, configVars, dedupVars, createVars,
                   fetchVars, listVars, bucketVars>>

\* line 227, t.Perform(job): the value to send on messages is computed.
PerformJob ==
    /\ ppc = "perform"
    /\ \E outcome \in Outcomes :
          LET p == Perform(Last(received), outcome)
          IN  /\ pending' = <<p.event>>
              /\ calls' = calls \o
                    [i \in 1..Len(p.calls) |->
                        [method |-> p.calls[i].method, key |-> p.calls[i].key,
                         outcome |-> p.calls[i].outcome, idx |-> Len(received)]]
    /\ ppc' = "send"
    /\ UNCHANGED <<received, eventsClosed, delivered, messagesClosed,
                   doneDelivered, consumer, configVars, dedupVars, createVars,
                   fetchVars, listVars, bucketVars>>

\* A plausible slip: the loop ends at the first unsuccessful result.
SendMessageStopsOnFailure ==
    /\ ppc = "send"
    /\ delivered' = Append(delivered, [idx |-> Len(received), event |-> pending[1]])
    /\ pending' = <<>>
    /\ IF Successful(pending[1])
       THEN ppc' = "recv" /\ UNCHANGED messagesClosed
       ELSE ppc' = "done" /\ messagesClosed' = TRUE
    /\ UNCHANGED <<received, eventsClosed, calls, doneDelivered, consumer,
                   configVars, dedupVars, createVars,
                   fetchVars, listVars, bucketVars>>


\* A plausible slip: the result is sent from a goroutine of its own and the
\* loop goes on to the next event.
SendMessageAsync ==
    /\ ppc = "send"
    /\ ppc' = "recv"
    /\ UNCHANGED <<received, eventsClosed, pending, delivered, calls,
                   messagesClosed, doneDelivered, consumer, configVars,
                   dedupVars, createVars,
                   fetchVars, listVars, bucketVars>>

\* line 227, messages <- ...: the consumer takes the result.
SendMessage ==
    /\ ppc = "send"
    /\ delivered' = Append(delivered, [idx |-> Len(received), event |-> pending[1]])
    /\ pending' = <<>>
    /\ ppc' = "recv"
    /\ UNCHANGED <<received, eventsClosed, calls, messagesClosed, doneDelivered,
                   consumer, configVars, dedupVars, createVars,
                   fetchVars, listVars, bucketVars>>

\* A plausible slip: the test of more is dropped, a receive ends the loop.
CloseMessagesIgnoresMore ==
    /\ ppc = "recv"
    /\ messagesClosed' = TRUE
    /\ ppc' = "done"
    /\ UNCHANGED <<received, eventsClosed, pending, delivered, calls,
                   doneDelivered, consumer, configVars, dedupVars, createVars,
                   fetchVars, listVars, bucketVars>>

\* A plausible slip: close(messages) is left out.
CloseMessagesForgotten ==
    /\ ppc = "recv"
    /\ eventsClosed
    /\ ppc' = "done"
    /\ UNCHANGED <<received, eventsClosed, pending, delivered, calls,
                   messagesClosed, doneDelivered, consumer, configVars, dedupVars, createVars,
                   fetchVars, listVars, bucketVars>>

\* lines 225 and 229: more = false, close(messages).
CloseMessages ==
    /\ ppc = "recv"
    /\ eventsClosed
    /\ messagesClosed' = TRUE
    /\ ppc' = "done"
    /\ UNCHANGED <<received, eventsClosed, pending, delivered, calls,
                   doneDelivered, consumer, configVars, dedupVars, createVars,
                   fetchVars, listVars, bucketVars>>

\* lines 230-231, done <- true; return: the consumer takes the signal.
SendDone ==
    /\ ppc = "done"
    /\ consumer = "sequential" => messagesClosed
    /\ doneDelivered' = TRUE
    /\ ppc' = "exit"
    /\ UNCHANGED <<received, eventsClosed, pending, delivered, calls,
                   messagesClosed, consumer, configVars, dedupVars, createVars,
                   fetchVars, listVars, bucketVars>>

NextProcess ==
    \/ ReceiveEvent
    \/ CloseEvents
    \/ PerformJob
    \/ SendMessage
    \/ CloseMessages
    \/ SendDone

SpecProcess == InitProcess /\ [][NextProcess]_vars

\* The goroutine runs whenever it can, every dispatch returns, and the
\* consumer keeps reading what it is offered.
SpecProcessFair ==
    /\ SpecProcess
    /\ WF_vars(PerformJob)
    /\ WF_vars(SendMessage)
    /\ WF_vars(CloseMessages)
    /\ WF_vars(SendDone)

(***************************************************************************)
(* Claims about the event pipeline.                                        *)
(***************************************************************************)
\* The calls made for the i-th event.
CallsOf(i) == SelectSeq(calls, LAMBDA c : c.idx = i)

\* The results Perform has returned so far, in the order of the events.
Results ==
    [i \in 1..Len(delivered) |-> delivered[i].event] \o pending

\* The HTTP call of the i-th event failed at transport level.
TransportFailed(i) == \E k \in 1..Len(calls) : calls[k].idx = i /\ calls[k].outcome.err

\* C4: Process emits exactly one result per event received: the i-th result
\* answers the i-th event, none is dropped or answered twice, the results are
\* all out when the result stream closes, and the stream closes and the
\* goroutine ends only because the input was closed, never because a
\* dispatch failed.
C4_OneResultPerEvent ==
    /\ Len(delivered) + Len(pending) + (IF ppc = "perform" THEN 1 ELSE 0)
          = Len(received)
    /\ \A i \in 1..Len(delivered) :
          /\ delivered[i].idx = i
          /\ (delivered[i].event.kind = "noop") <=>
                 MatchesFilter(received[i].asset.Key)
          /\ delivered[i].event.kind = "asset" =>
                 /\ delivered[i].event.key = received[i].asset.Key
                 /\ delivered[i].event.etype = received[i].type
    /\ messagesClosed => eventsClosed /\ Len(delivered) = Len(received)
    /\ ppc \in {"done", "exit"} => eventsClosed /\ messagesClosed

\* C4 witness: the stream has closed after two results, the first of them the
\* result of a dispatch that failed.
C4_Witness ==
    /\ messagesClosed
    /\ Len(delivered) = 2
    /\ ~Successful(delivered[1].event)
    /\ TransportFailed(1)

\* C5: the completion signal is taken only when the input is closed and every
\* result of every received event has been taken, and no result is taken
\* after it.
C5_DoneAfterResults ==
    /\ [](doneDelivered =>
            /\ eventsClosed
            /\ messagesClosed
            /\ pending = <<>>
            /\ ppc = "exit"
            /\ Len(delivered) = Len(received))
    /\ [][doneDelivered => delivered' = delivered /\ received' = received]_vars

\* C5 witness: the completion signal was taken after two results.
C5_Witness ==
    /\ doneDelivered
    /\ Len(delivered) = 2

\* C6: once the producer has closed the input, the result stream is
\* eventually closed, the completion signal received and the goroutine ended.
C6_ProcessTerminates ==
    eventsClosed ~> (messagesClosed /\ doneDelivered /\ ppc = "exit")

\* C6 witness: a consumer that reads the completion channel after the result
\* stream closed has received the signal, an event having been processed.
C6_Witness ==
    /\ consumer = "sequential"
    /\ eventsClosed
    /\ doneDelivered
    /\ ppc = "exit"
    /\ Len(delivered) >= 1

\* The verb the event kind prescribes.
Prescribed(e) == IF e.type = Update THEN "PUT" ELSE "DELETE"

\* C7 as stated: an ignored event gives a No-op result and no call, a
\* non-ignored Update event exactly one PUT, a non-ignored Remove event
\* exactly one DELETE.
C7_CallsAsPrescribedAlways ==
    \A i \in 1..Len(Results) :
        IF MatchesFilter(received[i].asset.Key)
        THEN Results[i] = NoOpEvent /\ CallsOf(i) = <<>>
        ELSE /\ Len(CallsOf(i)) = 1
             /\ CallsOf(i)[1].method = Prescribed(received[i])
             /\ CallsOf(i)[1].key = received[i].asset.Key

\* C7 as amended: an ignored event gives a No-op result and no call; a
\* non-ignored Update event whose request can be built (http.NewRequest
\* accepts the configured asset path) gives exactly one PUT and no other
\* call, a non-ignored Remove event exactly one DELETE; when the request
\* cannot be built, no call is made.
C7_CallsAsPrescribed ==
    \A i \in 1..Len(Results) :
        IF MatchesFilter(received[i].asset.Key)
        THEN Results[i] = NoOpEvent /\ CallsOf(i) = <<>>
        ELSE IF urlOk
        THEN /\ Len(CallsOf(i)) = 1
             /\ CallsOf(i)[1].method = Prescribed(received[i])
             /\ CallsOf(i)[1].key = received[i].asset.Key
        ELSE CallsOf(i) = <<>>

\* C7 witness: an ignored event answered with a No-op and no call, and another
\* event dispatched with one call.
C7_Witness ==
    /\ Len(Results) = 2
    /\ \E i \in 1..2 : Results[i] = NoOpEvent /\ CallsOf(i) = <<>>
    /\ \E i \in 1..2 : Len(CallsOf(i)) = 1

\* C8 as stated: no result event is emitted for an event whose HTTP call
\* failed at transport level.
C8_NoResultOnTransportFailure ==
    \A i \in 1..Len(Results) : ~TransportFailed(i)

\* C8 as amended: a 2xx answer gives a successful result event, a 4xx/5xx
\* answer an unsuccessful result event with that code, and a transport failure
\* is also returned by Perform, and sent by Process, as an unsuccessful result
\* event of the event's asset carrying the error: Perform has no error return.
C8_Classification ==
    \A i \in 1..Len(Results) :
        \A k \in 1..Len(calls) :
            calls[k].idx = i =>
                /\ Results[i].kind = "asset"
                /\ Results[i].key = received[i].asset.Key
                /\ Results[i].err = calls[k].outcome.err
                /\ ~calls[k].outcome.err => Results[i].code = calls[k].outcome.code
                /\ Successful(Results[i]) <=>
                       /\ ~calls[k].outcome.err
                       /\ calls[k].outcome.code \in 200..299

\* C8 witness: the consumer has taken the result event of an event whose call
\* failed at transport level.
C8_Witness ==
    \E i \in 1..Len(delivered) :
        /\ TransportFailed(i)
        /\ delivered[i].event.err
        /\ ~Successful(delivered[i].event)

(***************************************************************************)
(* The theme creation handshake: CreateTheme, sendData, isDoneProcessing.  *)
(***************************************************************************)
CreateThemeMaxRetries == 3

\* The value of falseFirst for a server that never reports previewable.
Never == 0 - 1

\* The status queries counted exactly; only a server that never reports
\* previewable is asked more often.
MaxPolls == MaxFalse + 2

\* The identifiers the server gives to a theme it creates.
ThemeIds == {1, 2}

\* What t.client.Do can return for POST themes.json: 201 and the created
\* theme, a non-2xx response, or an error and no response.
CreateOutcomes ==
    [err : {FALSE}, code : {201}, id : ThemeIds, previewable : {FALSE}]
        \cup [err : {FALSE}, code : {422, 500}, id : {0}, previewable : {FALSE}]
        \cup {[err |-> TRUE, code |-> NoCode, id |-> 0, previewable |-> FALSE]}

\* What the server answers to the n-th GET themes/{id}.json.
StatusOutcome(id, n) ==
    [err |-> FALSE, code |-> 200, id |-> id,
     previewable |-> (falseFirst # Never /\ n > falseFirst)]

\* NewAPIThemeEvent(resp, err): the result event of a theme call, carrying the
\* response code and the theme identifier and previewable flag of the body.
NewAPIThemeEvent(resp) ==
    IF resp.err
    THEN [code |-> NoCode, ThemeId |-> 0, Previewable |-> FALSE, err |-> TRUE]
    ELSE [code |-> resp.code, ThemeId |-> resp.id,
          Previewable |-> resp.previewable, err |-> FALSE]

\* APIThemeEvent.Successful(): the response code is 2xx.
ThemeSuccessful(e) == ~e.err /\ e.code >= 200 /\ e.code < 300

\* sendData, lines 276-287, for a request http.NewRequest accepts: the result
\* event of what t.client.Do returned.
sendData(resp) == NewAPIThemeEvent(resp)

\* NotifyError(err): the error goes to the notification sink; the call returns.
NotifyError(sink, what, after) == Append(sink, [what |-> what, after |-> after])

\* A plausible slip: the status query is taken as done when it succeeded.
isDoneProcessingOnSuccess(resp) == ThemeSuccessful(sendData(resp))

\* isDoneProcessing, lines 308-312.
isDoneProcessing(resp) == sendData(resp).Previewable

\* A plausible slip: the bound of the retry loop is off by one.
LoopContinuesOffByOne == retries <= CreateThemeMaxRetries /\ ~ready


\* A plausible slip: the loop does not stop at the first success.
LoopContinuesIgnoresReady == retries < CreateThemeMaxRetries

\* The condition of the retry loop, line 192.
LoopContinues == retries < CreateThemeMaxRetries /\ ~ready

InitCreate ==
    /\ DedupIdle
    /\ ProcIdle
    /\ FetchIdle
    /\ ListIdle
    /\ BucketIdle
    /\ urlOk \in BOOLEAN
    /\ cpc = "create"
    /\ retries = 0
    /\ ready = FALSE
    /\ themeEvent = ZeroThemeEvent
    /\ attempts = <<>>
    /\ notified = <<>>
    /\ polls = 0
    /\ lastPreviewable = FALSE
    /\ polledIds = {}
    /\ logBlocked = {}
    /\ logReceived = <<>>
    /\ newThemeId = 0
    /\ falseFirst \in (0..MaxFalse) \cup {Never}
    /\ serverThemeId = 0

\* One turn of the retry loop, lines 192-199: the create request is sent, the
\* result counted, and a goroutine started that sends it on log.
CreateAttempt ==
    /\ cpc = "create"
    /\ LoopContinues
    /\ urlOk
    /\ \E resp \in CreateOutcomes :
          LET result == sendData(resp)
          IN  /\ themeEvent' = result
              /\ attempts' = Append(attempts, result)
              /\ IF ~ThemeSuccessful(result)
                 THEN retries' = retries + 1 /\ UNCHANGED ready
                 ELSE ready' = TRUE /\ UNCHANGED retries
              /\ serverThemeId' = IF ThemeSuccessful(result) THEN resp.id
                                  ELSE serverThemeId
    /\ logBlocked' = logBlocked \cup {Len(attempts) + 1}
    /\ UNCHANGED <<cpc, notified, polls, lastPreviewable, polledIds, logReceived,
                   newThemeId, falseFirst, dedupVars, configVars, procVars,
                   fetchVars, listVars, bucketVars>>

\* sendData, lines 277-282, when http.NewRequest rejects the URL: the error is
\* notified and the nil request is dereferenced; the goroutine panics.
CreateAttemptBadUrl ==
    /\ cpc = "create"
    /\ LoopContinues
    /\ ~urlOk
    /\ notified' = NotifyError(notified, "request", Len(attempts))
    /\ cpc' = "panic"
    /\ UNCHANGED <<retries, ready, themeEvent, attempts, polls, lastPreviewable,
                   polledIds, logBlocked, logReceived, newThemeId, falseFirst,
                   serverThemeId, dedupVars, configVars, procVars,
                   fetchVars, listVars, bucketVars>>

\* The end of the loop, lines 200-212: the fatal condition is notified when
\* the retries are used up, and the polling goroutine is started.
ExitLoop ==
    /\ cpc = "create"
    /\ ~LoopContinues
    /\ notified' = IF retries >= CreateThemeMaxRetries
                   THEN NotifyError(notified, "zipLocation", Len(attempts))
                   ELSE notified
    /\ cpc' = "poll"
    /\ UNCHANGED <<retries, ready, themeEvent, attempts, polls, lastPreviewable,
                   polledIds, logBlocked, logReceived, newThemeId, falseFirst,
                   serverThemeId, dedupVars, configVars, procVars,
                   fetchVars, listVars, bucketVars>>

\* Line 208: one status query for themeEvent.ThemeId; wg.Done() when it
\* reports previewable (line 211), time.Sleep otherwise (line 209).
Poll ==
    /\ cpc = "poll"
    /\ LET done == isDoneProcessing(StatusOutcome(themeEvent.ThemeId, polls + 1))
       IN  /\ lastPreviewable' = done
           /\ cpc' = IF done THEN "ready" ELSE "sleep"
    /\ polls' = IF polls < MaxPolls THEN polls + 1 ELSE polls
    /\ polledIds' = polledIds \cup {themeEvent.ThemeId}
    /\ UNCHANGED <<retries, ready, themeEvent, attempts, notified, logBlocked,
                   logReceived, newThemeId, falseFirst, serverThemeId,
                   dedupVars, configVars, procVars,
                   fetchVars, listVars, bucketVars>>

\* Line 209: the 250 ms are over.
Wake ==
    /\ cpc = "sleep"
    /\ cpc' = "poll"
    /\ UNCHANGED <<retries, ready, themeEvent, attempts, notified, polls,
                   lastPreviewable, polledIds, logBlocked, logReceived,
                   newThemeId, falseFirst, serverThemeId,
                   dedupVars, configVars, procVars,
                   fetchVars, listVars, bucketVars>>

\* Lines 214-217: wg.Wait() returns, the new client is built and returned.
Return ==
    /\ cpc = "ready"
    /\ newThemeId' = themeEvent.ThemeId
    /\ cpc' = "returned"
    /\ UNCHANGED <<retries, ready, themeEvent, attempts, notified, polls,
                   lastPreviewable, polledIds, logBlocked, logReceived,
                   falseFirst, serverThemeId, dedupVars, configVars, procVars,
                   fetchVars, listVars, bucketVars>>

\* Lines 184-186 and part_000 line 115: the caller, which holds log only once
\* CreateTheme has returned, takes the event of one blocked logEvent goroutine.
LogEvent ==
    /\ cpc = "returned"
    /\ \E i \in logBlocked :
          /\ logReceived' = Append(logReceived, i)
          /\ logBlocked' = logBlocked \ {i}
    /\ UNCHANGED <<cpc, retries, ready, themeEvent, attempts, notified, polls,
                   lastPreviewable, polledIds, newThemeId, falseFirst,
                   serverThemeId, dedupVars, configVars, procVars,
                   fetchVars, listVars, bucketVars>>

NextCreate ==
    \/ CreateAttempt
    \/ CreateAttemptBadUrl
    \/ ExitLoop
    \/ Poll
    \/ Wake
    \/ Return
    \/ LogEvent

SpecCreate == InitCreate /\ [][NextCreate]_vars

\* CreateTheme and its goroutines run whenever they can.
SpecCreateFair ==
    /\ SpecCreate
    /\ WF_vars(CreateAttempt)
    /\ WF_vars(CreateAttemptBadUrl)
    /\ WF_vars(ExitLoop)
    /\ WF_vars(Poll)
    /\ WF_vars(Wake)
    /\ WF_vars(Return)

(***************************************************************************)
(* Claims about the theme creation handshake.                              *)
(***************************************************************************)
\* Every create attempt so far was answered, and none successfully.
AllAttemptsFailed ==
    /\ urlOk
    /\ \A i \in 1..Len(attempts) : ~ThemeSuccessful(attempts[i])

\* The NotifyError calls that name the archive location.
FatalNotified == SelectSeq(notified, LAMBDA n : n.what = "zipLocation")

\* C1: when every create request is answered unsuccessfully, exactly 3 create
\* attempts are made, the fatal condition is notified once, after the 3rd
\* attempt and not before, and the last result is not successful.
C1_ThreeAttemptsThenFatal ==
    AllAttemptsFailed =>
        /\ Len(attempts) <= CreateThemeMaxRetries
        /\ cpc = "create" => FatalNotified = <<>>
        /\ cpc # "create" =>
              /\ Len(attempts) = 3
              /\ Len(FatalNotified) = 1
              /\ FatalNotified[1].after = 3
              /\ themeEvent = attempts[3]
              /\ ~ThemeSuccessful(themeEvent)

\* C1 witness: three create attempts were answered 422 or 500 and the loop
\* has ended with the fatal condition notified.
C1_Witness ==
    /\ AllAttemptsFailed
    /\ cpc = "poll"
    /\ Len(attempts) = 3
    /\ \A i \in 1..3 : ~attempts[i].err
    /\ Len(FatalNotified) = 1

\* C2 as stated: once the fatal condition is notified, CreateTheme eventually
\* returns, whatever the status endpoint answers.
C2_ReturnsAfterFatal ==
    (FatalNotified # <<>>) ~> (cpc = "returned")

\* C3: CreateTheme returns only after a status query reported previewable:
\* with previewable = false for the first k queries, after query k + 1 and no
\* other; the returned client's ThemeId is that of the created theme.
C3_ReturnsOnlyWhenPreviewable ==
    cpc \in {"ready", "returned"} =>
        /\ lastPreviewable
        /\ falseFirst # Never
        /\ polls = falseFirst + 1
        /\ cpc = "returned" /\ ready =>
              /\ serverThemeId \in ThemeIds
              /\ newThemeId = serverThemeId

\* C3 witness: the create succeeded, the status endpoint said false twice,
\* and CreateTheme has returned after the 3rd query.
C3_Witness ==
    /\ cpc = "returned"
    /\ ready
    /\ falseFirst = 2
    /\ polls = 3
    /\ newThemeId = serverThemeId

\* CreateTheme and its goroutines run whenever they can, and the caller keeps
\* reading the stream CreateTheme returned (mergeEvents, part_000 line 115).
SpecCreateFairLog ==
    /\ SpecCreateFair
    /\ WF_vars(LogEvent)

\* The create loop is over.
LoopOver == cpc \in {"poll", "sleep", "ready", "returned"}

\* C15 as stated: no status query is issued unless an earlier create attempt
\* returned a successful result, and the identifier polled is the one that
\* attempt returned.
C15_PollOnlyAfterSuccessfulCreate ==
    polls > 0 =>
        /\ \E i \in 1..Len(attempts) : ThemeSuccessful(attempts[i])
        /\ polledIds = {serverThemeId}

\* C16: the create attempts number 1 to 3 once the loop is over, none follows
\* a successful one, each hands exactly one event to the stream (blocked in
\* its logEvent goroutine or taken by the consumer, never both, never twice),
\* and a consumer that keeps reading the returned stream ends up with exactly
\* as many events as attempts were made.
C16_AttemptAccounting ==
    /\ [](/\ Len(attempts) <= CreateThemeMaxRetries
          /\ LoopOver => Len(attempts) >= 1
          /\ \A i \in 1..(Len(attempts) - 1) : ~ThemeSuccessful(attempts[i])
          /\ logBlocked \cup {logReceived[i] : i \in 1..Len(logReceived)}
                 = 1..Len(attempts)
          /\ Cardinality(logBlocked) + Len(logReceived) = Len(attempts))
    /\ (cpc = "returned") ~> (logBlocked = {} /\ Len(logReceived) = Len(attempts))

\* C16 witness: two failed attempts and a successful third, all three events
\* taken by the consumer.
C16_Witness ==
    /\ cpc = "returned"
    /\ Len(attempts) = 3
    /\ ThemeSuccessful(attempts[3])
    /\ Len(logReceived) = 3
    /\ logBlocked = {}

\* close(log) appears nowhere in CreateTheme (lines 175-218) nor in a logEvent
\* goroutine: the stream is never closed.
LogClosed == FALSE

\* C20 as stated: the consumer receives the events in the order of the
\* attempts, and once the last event is received the stream is closed.
C20_FifoAndClosed ==
    /\ \A i, j \in 1..Len(logReceived) : i < j => logReceived[i] < logReceived[j]
    /\ (cpc = "returned" /\ Len(logReceived) = Len(attempts)) => LogClosed

(***************************************************************************)
(* Further claims about the deduplication and the event pipeline.          *)
(***************************************************************************)
\* The elements of seq at the indices in K, in the order of seq.
RECURSIVE SubsequenceAt(_, _, _)
SubsequenceAt(seq, K, i) ==
    IF i > Len(seq) THEN <<>>
    ELSE (IF i \in K THEN <<seq[i]>> ELSE <<>>) \o SubsequenceAt(seq, K, i + 1)

\* The assets of the sorted sequence whose key is a strict substring of the
\* key of a later asset, and those whose key is contained in (or equal to) it.
StrictlyContainedLater ==
    {i \in 1..Len(sorted) :
        \E j \in (i + 1)..Len(sorted) :
            sorted[j].Key # sorted[i].Key /\ Contains(sorted[j].Key, sorted[i].Key)}

ContainedLater ==
    {i \in 1..Len(sorted) :
        \E j \in (i + 1)..Len(sorted) : Contains(sorted[j].Key, sorted[i].Key)}

\* C17 as stated: ignoreCompiledAssets removes exactly the assets whose key
\* is a strict substring of the key of some later asset and returns the
\* others in input order, repeated keys and the empty key included.
C17_RemovesStrictSubstrings ==
    dpc = "done" =>
        sanitized = SubsequenceAt(sorted, (1..Len(sorted)) \ StrictlyContainedLater, 1)

\* C17 as amended: ignoreCompiledAssets removes exactly the assets whose key is
\* contained in the key of some later asset, an equal key included (of assets
\* with the same key only the last stays), and returns the others in input
\* order.
C17_RemovesContained ==
    dpc = "done" =>
        sanitized = SubsequenceAt(sorted, (1..Len(sorted)) \ ContainedLater, 1)

\* C17 witness: a sorted sequence with the empty key, a repeated key and a
\* longer key; the deduplication has kept the longer key only.
C17_Witness ==
    /\ dpc = "done"
    /\ Len(sorted) = 3
    /\ sorted[1].Key = <<>>
    /\ sorted[2].Key = sorted[3].Key
    /\ Len(sanitized) = 1

\* C19: the i-th result delivered is the result of dispatching the i-th event,
\* at most one dispatch is in flight, and the dispatch of an event does not
\* start before the result of the event before it was taken by the consumer.
C19_InOrderOneAtATime ==
    /\ \A i \in 1..Len(delivered) :
          /\ delivered[i].idx = i
          /\ IF MatchesFilter(received[i].asset.Key)
             THEN delivered[i].event = NoOpEvent
             ELSE /\ delivered[i].event.key = received[i].asset.Key
                  /\ delivered[i].event.etype = received[i].type
    /\ (IF ppc = "perform" THEN 1 ELSE 0) + Len(pending) <= 1
    /\ Len(received) <= Len(delivered) + 1
    /\ ppc = "perform" => Len(delivered) = Len(received) - 1 /\ pending = <<>>
    /\ \A k \in 1..Len(calls) :
          /\ calls[k].idx <= Len(delivered) + 1
          /\ \A m \in 1..(k - 1) : calls[m].idx < calls[k].idx

\* C19 witness: two events with different keys were dispatched, and their
\* results delivered in that order.
C19_Witness ==
    /\ Len(delivered) = 2
    /\ Len(calls) = 2
    /\ received[1].asset.Key # received[2].asset.Key
    /\ delivered[1].event.key = received[1].asset.Key
    /\ delivered[2].event.key = received[2].asset.Key

(***************************************************************************)
(* The single-asset fetch: query and Asset.                                *)
(***************************************************************************)
\* The status codes of the answers to a GET.
FetchCodes == {200, 304, 400, 404, 500}

\* A response body: JSON that decodes, carrying assets, or bytes that do not.
Bodies(assetLists) ==
    [kind : {"json"}, assets : assetLists]
        \cup {[kind |-> "garbage", assets |-> <<>>]}

\* What t.client.Do and ioutil.ReadAll can return for a GET: an error and no
\* response, or a response with a status code and a body, read completely or
\* cut short by a read error.
QueryOutcomes(assetLists) ==
    {[doErr |-> TRUE, code |-> 0, readErr |-> FALSE,
      body |-> [kind |-> "nil", assets |-> <<>>]]}
        \cup [doErr : {FALSE}, code : FetchCodes, readErr : BOOLEAN,
              body : Bodies(assetLists)]

\* query, lines 256-274.
query(outcome) ==
    IF ~urlOk
    THEN [code |-> 0, body |-> [kind |-> "nil", assets |-> <<>>], err |-> "request"]
    ELSE IF outcome.doErr
    THEN [code |-> 0, body |-> [kind |-> "nil", assets |-> <<>>], err |-> "transport"]
    ELSE [code |-> outcome.code, body |-> outcome.body,
          err |-> IF outcome.readErr THEN "read" ELSE "none"]

GenericError == [kind |-> "error", Code |-> 0, Verb |-> ""]
NilError == [kind |-> "nil", Code |-> 0, Verb |-> ""]

\* NonFatalNetworkError{Code, Verb, Message}, lines 54-58.
NonFatalNetworkError(code, verb) ==
    [kind |-> "NonFatalNetworkError", Code |-> code, Verb |-> verb]

\* A plausible slip: the comparison with 400 is strict.
AssetOffByOne(name, resp) ==
    IF resp.err # "none" THEN [asset |-> <<>>, error |-> GenericError]
    ELSE IF resp.code > 400
    THEN [asset |-> <<>>, error |-> NonFatalNetworkError(resp.code, "GET")]
    ELSE IF resp.body.kind # "json" THEN [asset |-> <<>>, error |-> GenericError]
    ELSE [asset |-> resp.body.assets, error |-> NilError]

\* Asset, lines 159-172, for the apiResponse of its query. The asset returned
\* is asset["asset"]: the decoded asset, or the zero Asset (<<>>) when the
\* body holds none.
Asset(name, resp) ==
    IF resp.err # "none" THEN [asset |-> <<>>, error |-> GenericError]
    ELSE IF resp.code >= 400
    THEN [asset |-> <<>>, error |-> NonFatalNetworkError(resp.code, "GET")]
    ELSE IF resp.body.kind # "json" THEN [asset |-> <<>>, error |-> GenericError]
    ELSE [asset |-> resp.body.assets, error |-> NilError]

InitAsset ==
    /\ DedupIdle
    /\ ProcIdle
    /\ CreateIdle
    /\ ListIdle
    /\ BucketIdle
    /\ urlOk \in BOOLEAN
    /\ apc = "query"
    /\ filename \in Keys
    /\ aresp = ZeroResponse
    /\ aresult = NoResult

\* Line 159.
FetchQuery ==
    /\ apc = "query"
    /\ \E outcome \in QueryOutcomes({<<>>, <<NewAsset(filename)>>}) :
          aresp' = query(outcome)
    /\ apc' = "classify"
    /\ UNCHANGED <<filename, aresult, dedupVars, configVars, procVars, createVars,
                   listVars, bucketVars>>

\* Lines 160-172.
FetchReturn ==
    /\ apc = "classify"
    /\ aresult' = Asset(filename, aresp)
    /\ apc' = "returned"
    /\ UNCHANGED <<filename, aresp, dedupVars, configVars, procVars, createVars,
                   listVars, bucketVars>>

NextAsset == FetchQuery \/ FetchReturn

SpecAsset == InitAsset /\ [][NextAsset]_vars

\* C11: a response with code >= 400 yields a NonFatalNetworkError with that
\* code and the verb "GET" and no asset; a failure of the request, of the
\* transport or of reading the body yields a generic error; an asset is
\* returned, without error, only for a response with code < 400 whose body
\* decodes.
C11_FetchClassification ==
    apc = "returned" =>
        /\ (aresp.err = "none" /\ aresp.code >= 400) =>
              /\ aresult.error = NonFatalNetworkError(aresp.code, "GET")
              /\ aresult.asset = <<>>
        /\ aresp.err # "none" =>
              /\ aresult.error = GenericError
              /\ aresult.asset = <<>>
        /\ (aresult.error = NilError \/ aresult.asset # <<>>) =>
              /\ aresp.err = "none"
              /\ aresp.code < 400
              /\ aresp.body.kind = "json"
              /\ aresult.error = NilError

\* C11 witness: the fetch was answered 404 and has returned the typed error.
C11_Witness ==
    /\ apc = "returned"
    /\ aresp.err = "none"
    /\ aresp.code = 404
    /\ aresult.error = NonFatalNetworkError(404, "GET")

(***************************************************************************)
(* The remote listing: AssetList and AssetListSync.                        *)
(***************************************************************************)
\* The listings the server answers with here: keys "a" and "ab".
ShortListings == SeqsUpTo({NewAsset(<<97>>), NewAsset(<<97, 98>>)}, MaxAssets)

\* json.Unmarshal(resp.body, &assets), line 104: it fails on no body and on a
\* body that is no JSON of the expected shape.
Unmarshals(body) == body.kind = "json"

InitAssetList ==
    /\ DedupIdle
    /\ ProcIdle
    /\ CreateIdle
    /\ FetchIdle
    /\ BucketIdle
    /\ urlOk \in BOOLEAN
    /\ lpc = "query"
    /\ lresp = ZeroResponse
    /\ lqueue = <<>>
    /\ errsReceived = <<>>
    /\ assetsReceived = <<>>
    /\ resultsClosed = FALSE
    /\ errsClosed = FALSE
    /\ lconsumer \in {"both", "sync"}
    /\ syncReturned = FALSE

\* Lines 98-99: the listing request.
ListQuery ==
    /\ lpc = "query"
    /\ \E outcome \in QueryOutcomes(ShortListings) : lresp' = query(outcome)
    /\ lpc' = IF lresp'.err # "none" THEN "sendErr" ELSE "decode"
    /\ UNCHANGED <<lqueue, errsReceived, assetsReceived, resultsClosed,
                   errsClosed, lconsumer, syncReturned, dedupVars, configVars,
                   procVars, createVars, fetchVars, bucketVars>>

\* Line 100, errs <- resp.err: a consumer that reads errs takes the error;
\* the goroutine goes on to line 103.
ListSendQueryErr ==
    /\ lpc = "sendErr"
    /\ lconsumer = "both"
    /\ errsReceived' = Append(errsReceived, lresp.err)
    /\ lpc' = "decode"
    /\ UNCHANGED <<lresp, lqueue, assetsReceived, resultsClosed, errsClosed,
                   lconsumer, syncReturned, dedupVars, configVars, procVars,
                   createVars, fetchVars, bucketVars>>

\* Lines 103-111: the body is decoded, sorted and deduplicated.
ListDecode ==
    /\ lpc = "decode"
    /\ IF Unmarshals(lresp.body)
       THEN /\ lqueue' = ignoreCompiledAssets(SortByAsset(lresp.body.assets))
            /\ lpc' = "sendResults"
       ELSE /\ lpc' = "sendDecodeErr"
            /\ UNCHANGED lqueue
    /\ UNCHANGED <<lresp, errsReceived, assetsReceived, resultsClosed, errsClosed,
                   lconsumer, syncReturned, dedupVars, configVars, procVars,
                   createVars, fetchVars, bucketVars>>

\* Lines 106-107, errs <- err; return: a consumer that reads errs takes the
\* error, and the goroutine returns; no channel is closed.
ListSendDecodeErr ==
    /\ lpc = "sendDecodeErr"
    /\ lconsumer = "both"
    /\ errsReceived' = Append(errsReceived, "decode")
    /\ lpc' = "exit"
    /\ UNCHANGED <<lresp, lqueue, assetsReceived, resultsClosed, errsClosed,
                   lconsumer, syncReturned, dedupVars, configVars, procVars,
                   createVars, fetchVars, bucketVars>>

\* Lines 113-115, results <- asset: the consumer takes the next asset.
ListSendResult ==
    /\ lpc = "sendResults"
    /\ lqueue # <<>>
    /\ assetsReceived' = Append(assetsReceived, Head(lqueue))
    /\ lqueue' = Tail(lqueue)
    /\ UNCHANGED <<lpc, lresp, errsReceived, resultsClosed, errsClosed, lconsumer,
                   syncReturned, dedupVars, configVars, procVars, createVars,
                   fetchVars, bucketVars>>

\* Lines 116-117: both channels are closed and the goroutine ends.
ListClose ==
    /\ lpc = "sendResults"
    /\ lqueue = <<>>
    /\ resultsClosed' = TRUE
    /\ errsClosed' = TRUE
    /\ lpc' = "exit"
    /\ UNCHANGED <<lresp, lqueue, errsReceived, assetsReceived, lconsumer,
                   syncReturned, dedupVars, configVars, procVars, createVars,
                   fetchVars, bucketVars>>

\* AssetListSync, lines 126-128: more = false, the results are returned.
SyncReturn ==
    /\ lconsumer = "sync"
    /\ resultsClosed
    /\ ~syncReturned
    /\ syncReturned' = TRUE
    /\ UNCHANGED <<lpc, lresp, lqueue, errsReceived, assetsReceived,
                   resultsClosed, errsClosed, lconsumer, dedupVars, configVars,
                   procVars, createVars, fetchVars, bucketVars>>

NextAssetList ==
    \/ ListQuery
    \/ ListSendQueryErr
    \/ ListDecode
    \/ ListSendDecodeErr
    \/ ListSendResult
    \/ ListClose
    \/ SyncReturn

SpecAssetList == InitAssetList /\ [][NextAssetList]_vars

\* The listing has failed: the HTTP call failed, or the body does not decode.
ListingFailed ==
    /\ lpc # "query"
    /\ lresp.err # "none" \/ ~Unmarshals(lresp.body)

\* C14 as stated: when the listing fails, at most one error is delivered on
\* the error stream and no asset on the result stream; once the consumer has
\* that error the goroutine is not blocked on a send, and it ends with both
\* streams closed.
C14_FailsOnceAndCloses ==
    ListingFailed =>
        /\ Len(errsReceived) <= 1
        /\ assetsReceived = <<>>
        /\ Len(errsReceived) = 1 => lpc \notin {"sendErr", "sendDecodeErr"}
        /\ lpc = "exit" => resultsClosed /\ errsClosed

\* C18 as stated: AssetListSync is never stuck: as long as it has not
\* returned, it or the AssetList goroutine can take a step; and what it
\* returns after a failed listing is the empty list.
C18_SyncAlwaysReturns ==
    lconsumer = "sync" =>
        /\ ~syncReturned => ENABLED NextAssetList
        /\ (syncReturned /\ ListingFailed) => assetsReceived = <<>>

(***************************************************************************)
(* The rate limiter accessor: ThemeClient.LeakyBucket.                     *)
(***************************************************************************)
MaxTasks == 2
MaxBucketSize == 2
MaxBucketCalls == 3
MaxRefills == 1

Tasks == 1..MaxTasks

\* The third argument of NewLeakyBucket at line 87: the cost of an acquire.
AcquireCost == 1

\* NewLeakyBucket(size, rate, cost): a new limiter, full.
NewLeakyBucket(size, cost) == [capacity |-> size, tokens |-> size, cost |-> cost]

\* LeakyBucket(), lines 86-88: each call constructs a limiter from the
\* configuration; the result is the limiter's place among those constructed.
LeakyBucket(made) == Append(made, NewLeakyBucket(bucketSize, AcquireCost))

\* acquire() can return: the limiter holds the cost in tokens.
CanAcquire(b) == b.tokens >= b.cost

\* acquire(): the cost is deducted.
Deduct(b) == [b EXCEPT !.tokens = b.tokens - b.cost]

\* One refill interval elapses: a token is added, up to the capacity.
RefillOne(b) == [b EXCEPT !.tokens = IF b.tokens < b.capacity THEN b.tokens + 1 ELSE b.tokens]

InitBucket ==
    /\ DedupIdle
    /\ ProcIdle
    /\ CreateIdle
    /\ FetchIdle
    /\ ListIdle
    /\ urlOk = TRUE
    /\ bucketSize \in 1..MaxBucketSize
    /\ buckets = <<>>
    /\ handle = [t \in Tasks |-> 0]
    /\ acquired = 0
    /\ refills = 0

\* A dispatch task calls t.LeakyBucket() and keeps the result.
GetBucket(task) ==
    /\ Len(buckets) < MaxBucketCalls
    /\ buckets' = LeakyBucket(buckets)
    /\ handle' = [handle EXCEPT ![task] = Len(buckets')]
    /\ UNCHANGED <<bucketSize, acquired, refills, dedupVars, configVars, procVars,
                   createVars, fetchVars, listVars>>

\* A dispatch task's acquire() on the limiter it holds returns.
Acquire(task) ==
    /\ handle[task] # 0
    /\ CanAcquire(buckets[handle[task]])
    /\ buckets' = [buckets EXCEPT ![handle[task]] = Deduct(@)]
    /\ acquired' = acquired + 1
    /\ UNCHANGED <<bucketSize, handle, refills, dedupVars, configVars, procVars,
                   createVars, fetchVars, listVars>>

\* A refill interval elapses for every limiter.
Refill ==
    /\ refills < MaxRefills
    /\ buckets # <<>>
    /\ buckets' = [i \in DOMAIN buckets |-> RefillOne(buckets[i])]
    /\ refills' = refills + 1
    /\ UNCHANGED <<bucketSize, handle, acquired, dedupVars, configVars, procVars,
                   createVars, fetchVars, listVars>>

NextBucket ==
    \/ \E task \in Tasks : GetBucket(task)
    \/ \E task \in Tasks : Acquire(task)
    \/ Refill

SpecBucket == InitBucket /\ [][NextBucket]_vars

\* C12 as stated: all calls of LeakyBucket() on the client yield one limiter:
\* at most one instance exists, the tasks that hold a limiter hold the same
\* one, and before any refill every token acquired through one call is
\* missing from the limiter seen through any other.
C12_OneSharedLimiter ==
    /\ Len(buckets) <= 1
    /\ \A t1, t2 \in Tasks :
           (handle[t1] # 0 /\ handle[t2] # 0) => handle[t1] = handle[t2]
    /\ refills = 0 =>
           \A t \in Tasks :
               handle[t] # 0 => buckets[handle[t]].tokens = bucketSize - acquired

\* C13 as stated: with no refill interval elapsed, no more acquire() calls
\* return than the capacity holds tokens; the token count of a limiter stays
\* between 0 and the capacity.
C13_Admission ==
    /\ refills = 0 => acquired * AcquireCost <= bucketSize
    /\ \A i \in DOMAIN buckets :
           buckets[i].tokens >= 0 /\ buckets[i].tokens <= buckets[i].capacity

====
